---- MODULE Spec2Model ----
(***************************************************************************)
(* The particle filter node of robot_localization/pf.py.                   *)
(*                                                                         *)
(* Two threads share the node's attributes without any lock: the rclpy     *)
(* executor thread ("exec"), which runs the callbacks scan_received,       *)
(* update_initial_pose and pub_latest_transform one at a time, and the     *)
(* thread started in __init__ ("loop"), which runs loop_wrapper/run_loop.  *)
(* Every action below is one step of one of the two threads; the steps are *)
(* cut at the reads and writes of the shared attributes scan_to_process    *)
(* and particle_cloud.                                                     *)
(*                                                                         *)
(* Numbers are fixed point: lengths in units of 0.05 m, angles in units of *)
(* pi/12.  Random draws are the stream of a generator whose seed is chosen *)
(* from 0..NoiseSeeds at every call that draws.                            *)
(***************************************************************************)
EXTENDS Integers, Sequences, FiniteSets, TLC

\* ---------------------------------------------------------------- bounds

\* number of particles of the model (pf.py:87 sets 300)
n_particles == 6
\* scans delivered by the laser subscription in one run
MaxScans == 2
\* initialpose messages delivered in one run
MaxInitPose == 2
\* seeds of the random generator: 0..NoiseSeeds
NoiseSeeds == 1
\* largest cloud handed to resample_particles when it is checked on its own
MaxPreSize == 8

\* ------------------------------------------------------ program constants

\* linear threshold 0.2 m, in units of 0.05 m
d_thresh == 4
\* angular threshold pi/6, in units of pi/12
a_thresh == 2
\* amount_to_keep = 0.25, in percent
amount_to_keep == 25
\* obstacle_dist < 0.15 m, in units of 0.05 m
closeness == 3

\* ------------------------------------------------------------ arithmetic

Abs(a) == IF a < 0 THEN -a ELSE a

\* a / b rounded to the nearest integer, halves away from zero (b > 0)
RDiv(a, b) == IF a < 0 THEN -((2 * (-a) + b) \div (2 * b)) ELSE (2 * a + b) \div (2 * b)

\* Python's round(a / b) for a >= 0, b > 0: halves go to the even neighbour
PyRound(a, b) ==
    LET q == a \div b
        r == a % b
    IN  IF 2 * r < b THEN q
        ELSE IF 2 * r > b THEN q + 1
        ELSE IF q % 2 = 0 THEN q ELSE q + 1

\* np.sqrt on a non-negative integer, to the nearest unit
Sqrt(m) ==
    CHOOSE r \in 0..(m + 1) :
        /\ r = 0 \/ (2 * r - 1) * (2 * r - 1) <= 4 * m
        /\ 4 * m < (2 * r + 1) * (2 * r + 1)

\* 10 * cos of an angle given in units of pi/12
Cos10(t) ==
    LET a == t % 24
        b == IF a > 12 THEN 24 - a ELSE a
        c == IF b > 6 THEN 12 - b ELSE b
        v == CASE c = 0 -> 10 [] c = 1 -> 10 [] c = 2 -> 9 [] c = 3 -> 7
               [] c = 4 -> 5 [] c = 5 -> 3 [] OTHER -> 0
    IN  IF b > 6 THEN -v ELSE v

Sin10(t) == Cos10(t - 6)

\* np.arctan2(y, x) in units of pi/12, resolved to the nearest multiple of pi/4
ArcTan2(y, x) ==
    LET ax == Abs(x)
        ay == Abs(y)
        a == IF 12 * ay < 5 * ax THEN 0 ELSE IF 5 * ay > 12 * ax THEN 6 ELSE 3
    IN  IF x = 0 /\ y = 0 THEN 0
        ELSE IF x >= 0 THEN (IF y >= 0 THEN a ELSE -a)
        ELSE (IF y >= 0 THEN 12 - a ELSE a - 12)

\* the i-th draw of component c from the generator seeded with k
NoiseAt(k, i, c) == IF k = 0 THEN 0 ELSE ((i + c * k) % 3) - 1

\* the i-th uniform draw of the generator seeded with k, as the index it
\* selects among len cumulative probabilities (len > 0)
SelAt(k, i, len) == ((i * k) % len) + 1

\* ---------------------------------------------------------------- inputs

Threads == {"loop", "exec"}

\* poses the transform helper can return for a scan's timestamp
OdomPoses == {<<0, 0, 11>>, <<4, 0, 9>>, <<5, 0, 11>>, <<0, 0, -11>>}

\* what get_matching_odom_pose answers when it has no pose: delta_t is
\* negative, non-negative or None
NoPose == {"negative", "nonnegative", "unknown"}

\* seeds of the initialpose messages
InitialPoses == {<<2, 2, 0>>}

Beam(r, th) == [inf |-> FALSE, r |-> r, th |-> th]
NoReturn(th) == [inf |-> TRUE, r |-> 0, th |-> th]

\* what convert_scan_to_polar_in_robot_frame can return
ScanObs == {<<Beam(6, 0), NoReturn(6)>>, <<Beam(6, 0), Beam(6, 1)>>}

\* occupancy_field.get_closest_obstacle_distance on a map with one wall at
\* x = 6: the distance is defined inside the map and nan outside
InMap(x, y) == Abs(x) <= 12 /\ Abs(y) <= 12
ObstacleDist(x, y) == Abs(x - 6)

\* ------------------------------------------------------------- particles

\* Particle.__init__ with the default weight: w = 1.0, norm_w = 1.0.
\* norm_w is the fraction <<numerator, denominator>>.
Particle(x, y, theta) == [x |-> x, y |-> y, theta |-> theta, w |-> 1, norm_w |-> <<1, 1>>]

turn(p, delta_theta) == [p EXCEPT !.theta = p.theta + delta_theta]

drive(p, delta_dist) ==
    [p EXCEPT !.x = p.x + RDiv(delta_dist * Cos10(p.theta), 10),
              !.y = p.y + RDiv(delta_dist * Sin10(p.theta), 10)]

RECURSIVE SumOver(_, _)
\* the sum of f[i] over i in 1..n
SumOver(f, n) == IF n = 0 THEN 0 ELSE f[n] + SumOver(f, n - 1)

total_weight(cloud) == SumOver([i \in 1..Len(cloud) |-> cloud[i].w], Len(cloud))

\* The second loop of normalize_particles, line 363, divides by the total the
\* first loop left: it raises ZeroDivisionError when the cloud it walks is not
\* empty and that total is 0
NormalizeRaises(cloud, total) == cloud # <<>> /\ total = 0

\* the second loop of normalize_particles over the cloud it walks, with the
\* total of the first loop
normalize_particles(cloud, total) ==
    [i \in 1..Len(cloud) |-> [cloud[i] EXCEPT !.norm_w = <<cloud[i].w, total>>]]

\* the weighted sums of update_robot_pose and the circular mean of the headings
PoseEstimate(cloud) ==
    LET n == Len(cloud)
        x_avg == SumOver([i \in 1..n |-> cloud[i].x * cloud[i].w], n)
        y_avg == SumOver([i \in 1..n |-> cloud[i].y * cloud[i].w], n)
        cos_avg == SumOver([i \in 1..n |-> Cos10(cloud[i].theta) * cloud[i].w], n)
        sin_avg == SumOver([i \in 1..n |-> Sin10(cloud[i].theta) * cloud[i].w], n)
    IN  <<x_avg, y_avg, ArcTan2(sin_avg, cos_avg)>>

\* the loop of update_particles_with_odom: rotate, translate, rotate
MotionUpdate(cloud, old, new, k) ==
    LET dx == new[1] - old[1]
        dy == new[2] - old[2]
        theta1 == ArcTan2(dy, dx) - old[3]
        dist == Sqrt(dx * dx + dy * dy)
        theta2 == new[3] - ArcTan2(dy, dx)
    IN  [i \in 1..Len(cloud) |->
            turn(drive(turn(cloud[i], theta1 + NoiseAt(k, i, 1)),
                       dist + NoiseAt(k, i, 2)),
                 theta2 + NoiseAt(k, i, 3))]

\* whether one beam corroborates particle p
BeamHits(p, beam) ==
    /\ ~beam.inf
    /\ LET x == RDiv(beam.r * Cos10(p.theta + beam.th), 10)
           y == RDiv(beam.r * Sin10(p.theta + beam.th), 10)
       IN  InMap(x, y) /\ ObstacleDist(x, y) < closeness

\* the loops of update_particles_with_laser: one vote per corroborating beam
SensorUpdate(cloud, obs) ==
    [i \in 1..Len(cloud) |->
        [cloud[i] EXCEPT !.w = cloud[i].w
            + Cardinality({b \in 1..Len(obs) : BeamHits(cloud[i], obs[b])})]]

Min(a, b) == IF a < b THEN a ELSE b

\* round(self.n_particles * (1-amount_to_keep))
worst_keeper_index == PyRound(n_particles * (100 - amount_to_keep), 100)

\* The positions (1-based ranks) of sorted_indexes[worst_keeper_index:n_particles-1]
\* for a cloud of len particles, by Python's slice rules.
KeeperRanks(len) == (Min(worst_keeper_index, len) + 1)..Min(n_particles - 1, len)

\* Whether particle i can stand at rank r of np.argsort(weights): the order of
\* equal weights is not specified.
CanRank(cloud, i, r) ==
    /\ Cardinality({j \in 1..Len(cloud) : cloud[j].w < cloud[i].w}) < r
    /\ r <= Cardinality({j \in 1..Len(cloud) : cloud[j].w <= cloud[i].w})

\* The values best_particle_indexes can take: one particle per kept rank.
BestParticleIndexes(cloud) ==
    LET ranks == KeeperRanks(Len(cloud))
        lo == Min(worst_keeper_index, Len(cloud))
    IN  {s \in [1..Cardinality(ranks) -> 1..Len(cloud)] :
            /\ \A a \in DOMAIN s : CanRank(cloud, s[a], lo + a)
            /\ \A a, b \in DOMAIN s : a # b => s[a] # s[b]}

\* the regeneration loop of resample_particles over the cloud it reads,
\* which is not empty
Regenerate(cloud, k) ==
    [i \in 1..n_particles |->
        LET sel == cloud[SelAt(k, i, Len(cloud))]
        IN  Particle(sel.x + NoiseAt(k, i, 1), sel.y + NoiseAt(k, i, 2),
                     sel.theta + NoiseAt(k, i, 3))]

\* lines 181-183 with >= for >: a displacement at a threshold counts as moved
moved_at_threshold(new_odom_xy_theta, cur) ==
    \/ Abs(new_odom_xy_theta[1] - cur[1]) >= d_thresh
    \/ Abs(new_odom_xy_theta[2] - cur[2]) >= d_thresh
    \/ Abs(new_odom_xy_theta[3] - cur[3]) >= a_thresh

\* math.fabs of the componentwise differences against the thresholds
moved_far_enough_to_update(new_odom_xy_theta, cur) ==
    \/ Abs(new_odom_xy_theta[1] - cur[1]) > d_thresh
    \/ Abs(new_odom_xy_theta[2] - cur[2]) > d_thresh
    \/ Abs(new_odom_xy_theta[3] - cur[3]) > a_thresh

\* ----------------------------------------------------------------- state

VARIABLES
    scan_to_process,        \* self.scan_to_process: 0 is None, else the scan's stamp
    last_scan_timestamp,    \* self.last_scan_timestamp: 0 is None
    particle_cloud,         \* self.particle_cloud
    current_odom_xy_theta,  \* self.current_odom_xy_theta: <<>> is the empty list
    odom_pose,              \* self.odom_pose: <<>> while the attribute is not set
    robot_pose,             \* self.robot_pose: <<>> while the attribute is not set
    map_to_odom,            \* the arguments of the last fix_map_to_odom_transform
    tf_sent,                \* the stamp of the last transform pub_latest_transform sent
    pub_stamps,             \* the stamps of the ParticleCloud messages published
    pc,                     \* where each thread stands
    msg,                    \* the local msg of run_loop (loop) and of scan_received (exec)
    new_pose,               \* run_loop's new_pose
    delta_t,                \* run_loop's delta_t: "" while it has none
    obs,                    \* run_loop's (r, theta)
    new_odom_xy_theta,      \* run_loop's new_odom_xy_theta
    init_xy,                \* initialize_particle_cloud's xy_theta, per thread; <<>> is None
    init_i,                 \* initialize_particle_cloud's loop counter, per thread
    init_k,                 \* the seed of initialize_particle_cloud's draws, per thread
    norm_total,             \* normalize_particles' total_weight, per thread
    cycle_log,              \* the calls run_loop has made in its current cycle
    n_scans,                \* scans delivered so far
    n_init                  \* initialpose messages delivered so far

vars == <<scan_to_process, last_scan_timestamp, particle_cloud, current_odom_xy_theta,
          odom_pose, robot_pose, map_to_odom, tf_sent, pub_stamps, pc,
          msg, new_pose, delta_t, obs, new_odom_xy_theta, init_xy, init_i, init_k,
          norm_total, cycle_log, n_scans, n_init>>

\* the attributes of the node other than the cloud, and the messages sent
node_rest == <<last_scan_timestamp, tf_sent>>
estimate_vars == <<robot_pose, map_to_odom>>
pub_vars == <<pub_stamps>>
loop_locals == <<new_pose, delta_t, obs, new_odom_xy_theta>>
init_locals == <<init_xy, init_i, init_k>>
counters == <<n_scans, n_init>>

Seeds == 0..NoiseSeeds

\* ParticleFilter.__init__
Init ==
    /\ scan_to_process = 0
    /\ last_scan_timestamp = 0
    /\ particle_cloud = <<>>
    /\ current_odom_xy_theta = <<>>
    /\ odom_pose = <<>>
    /\ robot_pose = <<>>
    /\ map_to_odom = <<>>
    /\ tf_sent = 0
    /\ pub_stamps = {}
    /\ pc = [t \in Threads |-> "idle"]
    /\ msg = [t \in Threads |-> 0]
    /\ new_pose = <<>>
    /\ delta_t = ""
    /\ obs = <<>>
    /\ new_odom_xy_theta = <<>>
    /\ init_xy = [t \in Threads |-> <<>>]
    /\ init_i = [t \in Threads |-> 0]
    /\ init_k = [t \in Threads |-> 0]
    /\ norm_total = [t \in Threads |-> 0]
    /\ cycle_log = <<>>
    /\ n_scans = 0
    /\ n_init = 0

\* Thread t returns from its callback or from run_loop: the locals of the
\* call are gone.
Return(t) ==
    /\ pc' = [pc EXCEPT ![t] = "idle"]
    /\ msg' = [msg EXCEPT ![t] = 0]
    /\ init_xy' = [init_xy EXCEPT ![t] = <<>>]
    /\ init_i' = [init_i EXCEPT ![t] = 0]
    /\ init_k' = [init_k EXCEPT ![t] = 0]
    /\ UNCHANGED norm_total

\* ------------------------------------------------- the executor's callbacks

\* scan_received, line 374: a new scan arrives and its stamp is recorded
scan_received ==
    /\ pc["exec"] = "idle"
    /\ n_scans < MaxScans
    /\ n_scans' = n_scans + 1
    /\ msg' = [msg EXCEPT !["exec"] = n_scans + 1]
    /\ last_scan_timestamp' = n_scans + 1
    /\ pc' = [pc EXCEPT !["exec"] = "scan_test"]
    /\ UNCHANGED <<scan_to_process, particle_cloud, current_odom_xy_theta, odom_pose,
                   estimate_vars, tf_sent, pub_vars, loop_locals, init_locals, norm_total,
                   cycle_log, n_init>>

\* line 377 without its test: every scan is stored
ScanSlotAlwaysFree(pending) == TRUE

\* the test of line 377, over the value of scan_to_process it is given
ScanSlotFree(pending) == pending = 0

\* scan_received, line 377: is a scan pending?
scan_received_test ==
    /\ pc["exec"] = "scan_test"
    /\ IF ScanSlotFree(scan_to_process)
       THEN /\ pc' = [pc EXCEPT !["exec"] = "scan_store"]
            /\ UNCHANGED <<msg, init_locals, norm_total>>
       ELSE Return("exec")
    /\ UNCHANGED <<scan_to_process, particle_cloud, current_odom_xy_theta, odom_pose,
                   estimate_vars, node_rest, pub_vars, loop_locals, cycle_log, counters>>

\* scan_received, line 378
scan_received_store ==
    /\ pc["exec"] = "scan_store"
    /\ scan_to_process' = msg["exec"]
    /\ Return("exec")
    /\ UNCHANGED <<particle_cloud, current_odom_xy_theta, odom_pose, estimate_vars,
                   node_rest, pub_vars, loop_locals, cycle_log, counters>>

\* pub_latest_transform: the timer callback; it returns at once while no scan
\* has been received
pub_latest_transform ==
    /\ pc["exec"] = "idle"
    /\ tf_sent' = IF last_scan_timestamp = 0 THEN tf_sent ELSE last_scan_timestamp
    /\ UNCHANGED <<scan_to_process, last_scan_timestamp, particle_cloud,
                   current_odom_xy_theta, odom_pose, estimate_vars, pub_vars, pc, msg,
                   loop_locals, init_locals, norm_total, cycle_log, counters>>

\* update_initial_pose, lines 326-327: the call of initialize_particle_cloud
\* with the pose of the message
update_initial_pose ==
    /\ pc["exec"] = "idle"
    /\ n_init < MaxInitPose
    /\ n_init' = n_init + 1
    /\ \E xy \in InitialPoses : init_xy' = [init_xy EXCEPT !["exec"] = xy]
    /\ pc' = [pc EXCEPT !["exec"] = "init_begin"]
    /\ UNCHANGED <<scan_to_process, particle_cloud, current_odom_xy_theta, odom_pose,
                   estimate_vars, node_rest, pub_vars, msg, loop_locals, init_i, init_k,
                   norm_total, cycle_log, n_scans>>

\* ------------------------------- initialize_particle_cloud, in either thread

\* where initialize_particle_cloud returns to
AfterInit(t) == IF t = "exec" THEN "idle" ELSE "publish"

\* the locals of initialize_particle_cloud are gone when it returns
InitReturns(t) ==
    /\ init_xy' = [init_xy EXCEPT ![t] = <<>>]
    /\ init_i' = [init_i EXCEPT ![t] = 0]
    /\ init_k' = [init_k EXCEPT ![t] = 0]

\* lines 334-336: the seed pose (the odometry when none is given) and the
\* fresh, empty list
init_begin(t) ==
    /\ pc[t] = "init_begin"
    /\ init_xy' = [init_xy EXCEPT ![t] = IF init_xy[t] = <<>> THEN odom_pose ELSE init_xy[t]]
    /\ particle_cloud' = <<>>
    /\ init_i' = [init_i EXCEPT ![t] = 0]
    /\ \E k \in Seeds : init_k' = [init_k EXCEPT ![t] = k]
    /\ pc' = [pc EXCEPT ![t] = "init_fill"]
    /\ UNCHANGED <<scan_to_process, current_odom_xy_theta, odom_pose, estimate_vars,
                   node_rest, pub_vars, msg, loop_locals, norm_total, cycle_log, counters>>

\* the particles lines 342-349 append, from the i-th turn of the loop on
RECURSIVE Sampled(_, _, _)
Sampled(xy, k, i) ==
    IF i > n_particles THEN <<>>
    ELSE <<Particle(xy[1] + NoiseAt(k, i, 1), xy[2] + NoiseAt(k, i, 2),
                    xy[3] + NoiseAt(k, i, 3))>> \o Sampled(xy, k, i + 1)

\* lines 342-349: the loop appends n_particles particles to the list that
\* self.particle_cloud names
init_append(t) ==
    /\ pc[t] = "init_fill"
    /\ init_i[t] < n_particles
    /\ particle_cloud' = particle_cloud \o Sampled(init_xy[t], init_k[t], init_i[t] + 1)
    /\ init_i' = [init_i EXCEPT ![t] = n_particles]
    /\ UNCHANGED <<scan_to_process, current_odom_xy_theta, odom_pose, estimate_vars,
                   node_rest, pub_vars, pc, msg, loop_locals, init_xy, init_k, norm_total,
                   cycle_log, counters>>

\* the first loop of normalize_particles, lines 356-359, by thread t: the
\* total of the weights of the cloud as it is now
normalize_total(t) ==
    norm_total' = [norm_total EXCEPT ![t] = total_weight(particle_cloud)]

\* the second loop of normalize_particles, lines 362-363, by thread t, which
\* goes on at `next`: the cloud as it is now, divided by the total of the first
\* loop; a division by zero ends the thread
normalize_divide(t, next) ==
    /\ IF NormalizeRaises(particle_cloud, norm_total[t])
       THEN /\ pc' = [pc EXCEPT ![t] = "zero_division"]
            /\ UNCHANGED particle_cloud
       ELSE /\ pc' = [pc EXCEPT ![t] = next]
            /\ particle_cloud' = normalize_particles(particle_cloud, norm_total[t])
    /\ norm_total' = [norm_total EXCEPT ![t] = 0]

\* line 351, once the loop is over: normalize_particles sums the weights
init_normalize_total(t) ==
    /\ pc[t] = "init_fill"
    /\ init_i[t] = n_particles
    /\ normalize_total(t)
    /\ pc' = [pc EXCEPT ![t] = "init_div"]
    /\ UNCHANGED <<scan_to_process, particle_cloud, current_odom_xy_theta, odom_pose,
                   estimate_vars, node_rest, pub_vars, msg, loop_locals, init_locals,
                   cycle_log, counters>>

\* line 351: normalize_particles divides
init_normalize(t) ==
    /\ pc[t] = "init_div"
    /\ normalize_divide(t, "init_pose")
    /\ UNCHANGED <<scan_to_process, current_odom_xy_theta, odom_pose, estimate_vars,
                   node_rest, pub_vars, msg, loop_locals, init_locals, cycle_log,
                   counters>>

\* update_robot_pose, lines 193-214, by thread t, which goes on at `next`,
\* from the second loop of its normalize_particles on: divide, estimate from
\* the cloud as it is now, and ask the transform helper for the map->odom
\* correction when an odometry pose is known
update_robot_pose(t, next) ==
    /\ normalize_divide(t, next)
    /\ IF NormalizeRaises(particle_cloud, norm_total[t])
       THEN UNCHANGED estimate_vars
       ELSE /\ robot_pose' = PoseEstimate(particle_cloud)
            /\ map_to_odom' = IF odom_pose # <<>>
                              THEN <<PoseEstimate(particle_cloud), odom_pose>>
                              ELSE map_to_odom

\* line 352: update_robot_pose begins, its normalize_particles sums the weights
init_update_robot_pose_total(t) ==
    /\ pc[t] = "init_pose"
    /\ normalize_total(t)
    /\ pc' = [pc EXCEPT ![t] = "init_pose_div"]
    /\ UNCHANGED <<scan_to_process, particle_cloud, current_odom_xy_theta, odom_pose,
                   estimate_vars, node_rest, pub_vars, msg, loop_locals, init_locals,
                   cycle_log, counters>>

\* line 352: the rest of update_robot_pose, and initialize_particle_cloud
\* returns
init_update_robot_pose(t) ==
    /\ pc[t] = "init_pose_div"
    /\ update_robot_pose(t, AfterInit(t))
    /\ InitReturns(t)
    /\ UNCHANGED <<scan_to_process, current_odom_xy_theta, odom_pose, node_rest,
                   pub_vars, msg, loop_locals, cycle_log, counters>>

\* ------------------------------------------------------ the run_loop thread

\* line 143 without its test: run_loop goes on with whatever is there
NeverNothingPending(pending) == FALSE

\* the test of line 143, over the value of scan_to_process it is given
NothingPending(pending) == pending = 0

\* run_loop, lines 143-144: return (and sleep) while no scan is pending
run_loop_test ==
    /\ pc["loop"] = "idle"
    /\ pc' = [pc EXCEPT !["loop"] =
                IF NothingPending(scan_to_process) THEN "idle" ELSE "read"]
    /\ cycle_log' = <<>>
    /\ UNCHANGED <<scan_to_process, particle_cloud, current_odom_xy_theta, odom_pose,
                   estimate_vars, node_rest, pub_vars, msg, loop_locals, init_locals, norm_total,
                   counters>>

\* run_loop, line 145
run_loop_read ==
    /\ pc["loop"] = "read"
    /\ msg' = [msg EXCEPT !["loop"] = scan_to_process]
    /\ pc' = [pc EXCEPT !["loop"] = "align"]
    /\ UNCHANGED <<scan_to_process, particle_cloud, current_odom_xy_theta, odom_pose,
                   estimate_vars, node_rest, pub_vars, loop_locals, init_locals, norm_total,
                   cycle_log, counters>>

\* run_loop, lines 147-150: get_matching_odom_pose has no pose for the stamp
run_loop_no_pose ==
    /\ pc["loop"] = "align"
    /\ \E d \in NoPose : delta_t' = d
    /\ pc' = [pc EXCEPT !["loop"] = "no_pose"]
    /\ UNCHANGED <<scan_to_process, particle_cloud, current_odom_xy_theta, odom_pose,
                   estimate_vars, node_rest, pub_vars, msg, new_pose, obs,
                   new_odom_xy_theta, init_locals, norm_total, cycle_log, counters>>

\* line 152 with <= for <: a scan whose transform is still to come is discarded too
TooOldOrNotYet(d) == d \in {"negative", "nonnegative"}

\* the test of line 152: delta_t is not None and delta_t < Duration(0)
TooOld(d) == d = "negative"

\* run_loop, lines 152-155: a scan older than the oldest transform is
\* discarded, any other stays pending; run_loop returns
run_loop_discard ==
    /\ pc["loop"] = "no_pose"
    /\ scan_to_process' = IF TooOld(delta_t) THEN 0 ELSE scan_to_process
    /\ Return("loop")
    /\ delta_t' = ""
    /\ UNCHANGED <<particle_cloud, current_odom_xy_theta, odom_pose, estimate_vars,
                   node_rest, pub_vars, new_pose, obs, new_odom_xy_theta, cycle_log,
                   counters>>

\* run_loop, lines 147-157: the scan is aligned and converted to polar
run_loop_aligned ==
    /\ pc["loop"] = "align"
    /\ \E p \in OdomPoses : new_pose' = p
    /\ \E o \in ScanObs : obs' = o
    /\ pc' = [pc EXCEPT !["loop"] = "clear"]
    /\ UNCHANGED <<scan_to_process, particle_cloud, current_odom_xy_theta, odom_pose,
                   estimate_vars, node_rest, pub_vars, msg, delta_t, new_odom_xy_theta,
                   init_locals, norm_total, cycle_log, counters>>

\* run_loop, line 160
run_loop_clear ==
    /\ pc["loop"] = "clear"
    /\ scan_to_process' = 0
    /\ pc' = [pc EXCEPT !["loop"] = "odom"]
    /\ UNCHANGED <<particle_cloud, current_odom_xy_theta, odom_pose, estimate_vars,
                   node_rest, pub_vars, msg, loop_locals, init_locals, norm_total, cycle_log,
                   counters>>

\* run_loop, lines 162-163
run_loop_odom ==
    /\ pc["loop"] = "odom"
    /\ odom_pose' = new_pose
    /\ new_odom_xy_theta' = new_pose
    /\ pc' = [pc EXCEPT !["loop"] = "branch"]
    /\ UNCHANGED <<scan_to_process, particle_cloud, current_odom_xy_theta,
                   estimate_vars, node_rest, pub_vars, msg, new_pose, delta_t, obs,
                   init_locals, norm_total, cycle_log, counters>>

\* lines 166-171 with the first two tests in the other order: the cloud is
\* created before the baseline is recorded
BranchCloudFirst(cur, cloud, new) ==
    IF cloud = <<>> THEN "initialize"
    ELSE IF cur = <<>> THEN "bootstrap"
    ELSE IF moved_far_enough_to_update(new, cur) THEN "update"
    ELSE "skip"

\* the if/elif chain of lines 166-171
Branch(cur, cloud, new) ==
    IF cur = <<>> THEN "bootstrap"
    ELSE IF cloud = <<>> THEN "initialize"
    ELSE IF moved_far_enough_to_update(new, cur) THEN "update"
    ELSE "skip"

\* run_loop, lines 166-171: record the baseline, or start the cloud, or start
\* the full update, or go straight to publishing
run_loop_branch ==
    /\ pc["loop"] = "branch"
    /\ LET b == Branch(current_odom_xy_theta, particle_cloud, new_odom_xy_theta)
       IN  /\ current_odom_xy_theta' =
                 IF b = "bootstrap" THEN new_odom_xy_theta ELSE current_odom_xy_theta
           /\ pc' = [pc EXCEPT !["loop"] =
                 CASE b = "bootstrap" -> "publish"
                   [] b = "initialize" -> "init_begin"
                   [] b = "update" -> "motion"
                   [] OTHER -> "publish"]
           /\ cycle_log' = Append(cycle_log, b)
    /\ UNCHANGED <<scan_to_process, particle_cloud, odom_pose, estimate_vars, node_rest,
                   pub_vars, msg, loop_locals, init_locals, norm_total, counters>>

\* lines 175 and 176 in the other order: resample, then estimate
AfterStepResampleFirst(step) ==
    CASE step = "motion" -> "laser"
      [] step = "laser" -> "prune"
      [] step = "regen" -> "pose"
      [] OTHER -> "publish"

\* the order of the calls of lines 173-176, as the step that follows each
AfterStep(step) ==
    CASE step = "motion" -> "laser"
      [] step = "laser" -> "pose"
      [] step = "pose" -> "prune"
      [] OTHER -> "publish"

\* update_particles_with_odom, lines 222-240
update_particles_with_odom ==
    /\ pc["loop"] = "motion"
    /\ IF current_odom_xy_theta # <<>>
       THEN \E k \in Seeds :
                particle_cloud' = MotionUpdate(particle_cloud, current_odom_xy_theta,
                                               odom_pose, k)
       ELSE UNCHANGED particle_cloud
    /\ current_odom_xy_theta' = odom_pose
    /\ pc' = [pc EXCEPT !["loop"] = AfterStep("motion")]
    /\ cycle_log' = Append(cycle_log, "motion")
    /\ UNCHANGED <<scan_to_process, odom_pose, estimate_vars, node_rest, pub_vars, msg,
                   loop_locals, init_locals, norm_total, counters>>

\* update_particles_with_laser, lines 308-317: the votes of the beams, and
\* the first loop of normalize_particles
update_particles_with_laser ==
    /\ pc["loop"] = "laser"
    /\ particle_cloud' = SensorUpdate(particle_cloud, obs)
    /\ norm_total' = [norm_total EXCEPT !["loop"] =
                         total_weight(SensorUpdate(particle_cloud, obs))]
    /\ pc' = [pc EXCEPT !["loop"] = "laser_div"]
    /\ cycle_log' = cycle_log \o <<"sensor", "normalize">>
    /\ UNCHANGED <<scan_to_process, current_odom_xy_theta, odom_pose, estimate_vars,
                   node_rest, pub_vars, msg, loop_locals, init_locals, counters>>

\* update_particles_with_laser, line 317: normalize_particles divides
update_particles_with_laser_normalize ==
    /\ pc["loop"] = "laser_div"
    /\ normalize_divide("loop", "laser_pose")
    /\ UNCHANGED <<scan_to_process, current_odom_xy_theta, odom_pose, estimate_vars,
                   node_rest, pub_vars, msg, loop_locals, init_locals, cycle_log,
                   counters>>

\* update_particles_with_laser, line 320: update_robot_pose begins
update_particles_with_laser_pose_total ==
    /\ pc["loop"] = "laser_pose"
    /\ normalize_total("loop")
    /\ pc' = [pc EXCEPT !["loop"] = "laser_pose_div"]
    /\ cycle_log' = Append(cycle_log, "normalize")
    /\ UNCHANGED <<scan_to_process, particle_cloud, current_odom_xy_theta, odom_pose,
                   estimate_vars, node_rest, pub_vars, msg, loop_locals, init_locals,
                   counters>>

\* update_particles_with_laser, line 320: the rest of update_robot_pose
update_particles_with_laser_pose ==
    /\ pc["loop"] = "laser_pose_div"
    /\ update_robot_pose("loop", AfterStep("laser"))
    /\ cycle_log' = Append(cycle_log, "estimate")
    /\ UNCHANGED <<scan_to_process, current_odom_xy_theta, odom_pose, node_rest,
                   pub_vars, msg, loop_locals, init_locals, counters>>

\* run_loop, line 175: update_robot_pose begins
run_loop_update_robot_pose_total ==
    /\ pc["loop"] = "pose"
    /\ normalize_total("loop")
    /\ pc' = [pc EXCEPT !["loop"] = "pose_div"]
    /\ cycle_log' = Append(cycle_log, "normalize")
    /\ UNCHANGED <<scan_to_process, particle_cloud, current_odom_xy_theta, odom_pose,
                   estimate_vars, node_rest, pub_vars, msg, loop_locals, init_locals,
                   counters>>

\* run_loop, line 175: the rest of update_robot_pose
run_loop_update_robot_pose ==
    /\ pc["loop"] = "pose_div"
    /\ update_robot_pose("loop", AfterStep("pose"))
    /\ cycle_log' = Append(cycle_log, "estimate")
    /\ UNCHANGED <<scan_to_process, current_odom_xy_theta, odom_pose, node_rest,
                   pub_vars, msg, loop_locals, init_locals, counters>>

\* the particles best_particles holds, given best_particle_indexes
Keep(cloud, idx) == [a \in DOMAIN idx |-> cloud[idx[a]]]

\* resample_particles, lines 252-268: keep the slice of the weight order, and
\* the first loop of normalize_particles over what is kept
resample_particles_prune ==
    /\ pc["loop"] = "prune"
    /\ \E idx \in BestParticleIndexes(particle_cloud) :
          /\ particle_cloud' = Keep(particle_cloud, idx)
          /\ norm_total' = [norm_total EXCEPT !["loop"] =
                               total_weight(Keep(particle_cloud, idx))]
    /\ pc' = [pc EXCEPT !["loop"] = "prune_div"]
    /\ cycle_log' = Append(cycle_log, "resample")
    /\ UNCHANGED <<scan_to_process, current_odom_xy_theta, odom_pose, estimate_vars,
                   node_rest, pub_vars, msg, loop_locals, init_locals, counters>>

\* resample_particles, line 268: normalize_particles divides
resample_particles_normalize ==
    /\ pc["loop"] = "prune_div"
    /\ normalize_divide("loop", "regen")
    /\ UNCHANGED <<scan_to_process, current_odom_xy_theta, odom_pose, estimate_vars,
                   node_rest, pub_vars, msg, loop_locals, init_locals, cycle_log,
                   counters>>

\* resample_particles, lines 271-292: n_particles draws around the kept
\* particles; indexing an empty list raises IndexError, which ends the thread
resample_particles_regenerate ==
    /\ pc["loop"] = "regen"
    /\ IF particle_cloud = <<>>
       THEN /\ pc' = [pc EXCEPT !["loop"] = "raised"]
            /\ UNCHANGED particle_cloud
       ELSE /\ pc' = [pc EXCEPT !["loop"] = AfterStep("regen")]
            /\ \E k \in Seeds : particle_cloud' = Regenerate(particle_cloud, k)
    /\ UNCHANGED <<scan_to_process, current_odom_xy_theta, odom_pose, estimate_vars,
                   node_rest, pub_vars, msg, loop_locals, init_locals, norm_total,
                   cycle_log, counters>>

\* publish_particles, lines 365-371: a ParticleCloud message of the cloud as it
\* is now goes out under the stamp of run_loop's msg, and run_loop returns
publish_particles ==
    /\ pc["loop"] = "publish"
    /\ pub_stamps' = pub_stamps \cup {msg["loop"]}
    /\ Return("loop")
    /\ cycle_log' = <<>>
    /\ new_pose' = <<>>
    /\ delta_t' = ""
    /\ obs' = <<>>
    /\ new_odom_xy_theta' = <<>>
    /\ UNCHANGED <<scan_to_process, particle_cloud, current_odom_xy_theta, odom_pose,
                   estimate_vars, node_rest, counters>>

\* ------------------------------------------------------- the specification

Next ==
    \/ scan_received
    \/ scan_received_test
    \/ scan_received_store
    \/ pub_latest_transform
    \/ update_initial_pose
    \/ \E t \in Threads : init_begin(t)
    \/ \E t \in Threads : init_append(t)
    \/ \E t \in Threads : init_normalize_total(t)
    \/ \E t \in Threads : init_normalize(t)
    \/ \E t \in Threads : init_update_robot_pose_total(t)
    \/ \E t \in Threads : init_update_robot_pose(t)
    \/ run_loop_test
    \/ run_loop_read
    \/ run_loop_no_pose
    \/ run_loop_discard
    \/ run_loop_aligned
    \/ run_loop_clear
    \/ run_loop_odom
    \/ run_loop_branch
    \/ update_particles_with_odom
    \/ update_particles_with_laser
    \/ update_particles_with_laser_normalize
    \/ update_particles_with_laser_pose_total
    \/ update_particles_with_laser_pose
    \/ run_loop_update_robot_pose_total
    \/ run_loop_update_robot_pose
    \/ resample_particles_prune
    \/ resample_particles_normalize
    \/ resample_particles_regenerate
    \/ publish_particles

Spec == Init /\ [][Next]_vars

\* ----------------------------------------- resample_particles on its own

\* a particle of weight w, told apart by its position
Weighted(i, w) == [Particle(i, 0, 0) EXCEPT !.w = w]

\* the weight vectors of a cloud of len particles: every mix of two weights,
\* and the strictly increasing sequence
WeightVectors(len) == [1..len -> 1..2] \cup {[i \in 1..len |-> i]}

\* resample_particles is about to run, line 176, on a non-empty cloud of any
\* size up to MaxPreSize whose weights are normalized
InitResample ==
    /\ \E len \in 1..MaxPreSize : \E w \in WeightVectors(len) :
          LET cloud == [i \in 1..len |-> Weighted(i, w[i])]
          IN  particle_cloud = normalize_particles(cloud, total_weight(cloud))
    /\ scan_to_process = 0
    /\ last_scan_timestamp = 1
    /\ current_odom_xy_theta = <<5, 0, 11>>
    /\ odom_pose = <<5, 0, 11>>
    /\ robot_pose = PoseEstimate(particle_cloud)
    /\ map_to_odom = <<robot_pose, odom_pose>>
    /\ tf_sent = 0
    /\ pub_stamps = {}
    /\ pc = [t \in Threads |-> IF t = "loop" THEN "prune" ELSE "idle"]
    /\ msg = [t \in Threads |-> IF t = "loop" THEN 1 ELSE 0]
    /\ new_pose = <<5, 0, 11>>
    /\ delta_t = ""
    /\ obs \in ScanObs
    /\ new_odom_xy_theta = <<5, 0, 11>>
    /\ init_xy = [t \in Threads |-> <<>>]
    /\ init_i = [t \in Threads |-> 0]
    /\ init_k = [t \in Threads |-> 0]
    /\ norm_total = [t \in Threads |-> 0]
    /\ cycle_log = <<"update", "motion", "sensor", "normalize", "normalize", "estimate",
                     "normalize", "estimate">>
    /\ n_scans = 1
    /\ n_init = 0

NextResample ==
    \/ resample_particles_prune
    \/ resample_particles_normalize
    \/ resample_particles_regenerate

SpecResample == InitResample /\ [][NextResample]_vars

\* ---------------------------------------------------------------- claims

\* the loop thread takes this step
LoopSteps == pc'["loop"] # pc["loop"]

\* C1: a pending scan is never overwritten.  While scan_to_process is not
\* None it changes only to None, and only by a step of run_loop (line 154 or
\* line 160); a scan_received that tests line 377 while a scan is pending
\* returns without storing its scan.
C1_PendingScanNeverOverwritten ==
    [][/\ scan_to_process # 0 => scan_to_process' \in {scan_to_process, 0}
       /\ scan_to_process # 0 /\ scan_to_process' = 0 =>
              LoopSteps /\ pc["loop"] \in {"clear", "no_pose"}
       /\ pc["exec"] = "scan_test" /\ scan_to_process # 0 /\ pc'["exec"] # "scan_test" =>
              pc'["exec"] = "idle" /\ scan_to_process' = scan_to_process]_vars

\* the second scan has arrived and its callback has returned, and the first
\* scan is still the pending one: the second was dropped
C1_Witness == n_scans = 2 /\ pc["exec"] = "idle" /\ scan_to_process = 1

\* C2 as stated: with no odometry baseline recorded the cloud is empty,
\* whatever callbacks have run.
C2_BootstrapCloudEmpty == current_odom_xy_theta = <<>> => particle_cloud = <<>>

\* C2 as amended: the baseline, once recorded, stays recorded; the cycle that
\* finds no baseline records it, leaves the cloud alone and goes to publish;
\* the cycle that finds a baseline and no cloud starts the cloud; and with no
\* baseline recorded the cloud is empty as long as no initialpose message has
\* been delivered.
C2_SchedulerForwardOnly ==
    [][/\ current_odom_xy_theta # <<>> => current_odom_xy_theta' # <<>>
       /\ pc["loop"] = "branch" /\ LoopSteps /\ current_odom_xy_theta = <<>> =>
              /\ current_odom_xy_theta' = new_odom_xy_theta
              /\ particle_cloud' = particle_cloud
              /\ pc'["loop"] = "publish"
       /\ pc["loop"] = "branch" /\ LoopSteps /\ current_odom_xy_theta # <<>>
             /\ particle_cloud = <<>> =>
              pc'["loop"] = "init_begin" /\ current_odom_xy_theta' = current_odom_xy_theta
       /\ current_odom_xy_theta = <<>> /\ n_init = 0 => particle_cloud = <<>>
       /\ current_odom_xy_theta' = <<>> /\ n_init' = 0 => particle_cloud' = <<>>]_vars

\* no initialpose message came; the first scan recorded the baseline and was
\* published without particles, and run_loop has filled the cloud for the second
C2_Witness ==
    /\ n_init = 0
    /\ pub_stamps = {1}
    /\ msg["loop"] = 2
    /\ pc["loop"] = "init_fill"
    /\ Len(particle_cloud) = n_particles

\* the displacement of `new` from the baseline `cur` is at or below d_thresh
\* on x and on y and at or below a_thresh in heading
WithinThresholds(new, cur) ==
    /\ Abs(new[1] - cur[1]) <= d_thresh
    /\ Abs(new[2] - cur[2]) <= d_thresh
    /\ Abs(new[3] - cur[3]) <= a_thresh

\* C3: in TRACKING, a cycle whose scan is displaced from the baseline by at
\* most the thresholds does not touch the cloud: its branch step goes straight
\* to publish with the cloud and the baseline as they were, and its publish
\* step sends the message and leaves the cloud as it was.
C3_SkipLeavesCloudUnchanged ==
    [][/\ pc["loop"] = "branch" /\ LoopSteps /\ current_odom_xy_theta # <<>>
             /\ particle_cloud # <<>>
             /\ WithinThresholds(new_odom_xy_theta, current_odom_xy_theta) =>
              /\ pc'["loop"] = "publish"
              /\ cycle_log' = <<"skip">>
              /\ particle_cloud' = particle_cloud
              /\ current_odom_xy_theta' = current_odom_xy_theta
       /\ pc["loop"] = "publish" /\ LoopSteps /\ cycle_log = <<"skip">> =>
              /\ particle_cloud' = particle_cloud
              /\ pub_stamps' = pub_stamps \cup {msg["loop"]}]_vars

\* a skipped cycle is about to publish: the robot has moved exactly d_thresh
\* on x and a_thresh in heading since the baseline
C3_Witness ==
    /\ pc["loop"] = "publish"
    /\ cycle_log = <<"skip">>
    /\ particle_cloud # <<>>
    /\ Abs(new_odom_xy_theta[1] - current_odom_xy_theta[1]) = d_thresh
    /\ Abs(new_odom_xy_theta[3] - current_odom_xy_theta[3]) = a_thresh

\* whether call a is logged before call b in log
LoggedBefore(log, a, b) ==
    \E i, j \in DOMAIN log : i < j /\ log[i] = a /\ log[j] = b

\* run_loop has made every call of a full update and is about to publish
FullUpdateDone == pc["loop"] = "publish" /\ cycle_log # <<>> /\ cycle_log[1] = "update"

C5_UnalignedScan ==
    [][pc["loop"] = "no_pose" /\ LoopSteps =>
          /\ pc'["loop"] = "idle"
          /\ particle_cloud' = particle_cloud
          /\ current_odom_xy_theta' = current_odom_xy_theta
          /\ pub_stamps' = pub_stamps
          /\ delta_t = "negative" => scan_to_process' = 0 /\ msg["exec"] # msg["loop"]
          /\ delta_t # "negative" =>
                 scan_to_process' = msg["loop"] /\ scan_to_process' # 0]_vars

\* the only scan so far was stored and is gone, and nothing was recorded or
\* published for it: it was discarded as too old
C5_Witness ==
    /\ n_scans = 1
    /\ pc["exec"] = "idle"
    /\ pc["loop"] = "idle"
    /\ scan_to_process = 0
    /\ pub_stamps = {}
    /\ current_odom_xy_theta = <<>>

\* C6: resample_particles ends without raising and leaves n_particles
\* particles, whatever the size of the cloud it is given.
C6_ResampleYieldsNParticles ==
    /\ pc["loop"] # "raised"
    /\ pc["loop"] = "publish" => Len(particle_cloud) = n_particles

\* C7: of a cloud of n_particles particles the pruning keeps
\* round(n_particles * amount_to_keep) particles, no particle left out weighs
\* more than a kept one, and a particle of the highest weight is kept.
C7_ElitismKeepsBest ==
    [][pc["loop"] = "prune" /\ LoopSteps /\ Len(particle_cloud) = n_particles =>
          LET k == PyRound(n_particles * amount_to_keep, 100)
              kept == particle_cloud'
          IN  /\ Len(kept) = k
              /\ \E i \in DOMAIN kept : \A j \in DOMAIN particle_cloud :
                     kept[i].w >= particle_cloud[j].w
              /\ \A i \in DOMAIN kept :
                     Cardinality({j \in DOMAIN particle_cloud :
                                     particle_cloud[j].w > kept[i].w}) < k]_vars

\* the steps of a full update between its first call and its publish
MidUpdate ==
    /\ pc["loop"] \in {"motion", "laser", "laser_div", "laser_pose", "laser_pose_div", "pose",
                      "pose_div", "prune", "prune_div", "regen", "publish"}
    /\ cycle_log # <<>>
    /\ cycle_log[1] = "update"

\* C8: while run_loop is inside a full update nothing but run_loop's own
\* steps changes the particle collection.
C8_NoInterleavingMidCycle ==
    [][MidUpdate /\ particle_cloud' # particle_cloud => LoopSteps]_vars

\* the angular separation of two headings, in units of pi/12
AngleDiff(a, b) == Abs(((a - b + 12) % 24) - 12)

\* C9: in TRACKING, a scan displaced by at most d_thresh on x and y whose
\* heading is within a_thresh of the baseline's, measured around the circle,
\* does not start a full update.
C9_HeadingDifferenceWrapped ==
    [][pc["loop"] = "branch" /\ LoopSteps /\ current_odom_xy_theta # <<>>
          /\ particle_cloud # <<>>
          /\ Abs(new_odom_xy_theta[1] - current_odom_xy_theta[1]) <= d_thresh
          /\ Abs(new_odom_xy_theta[2] - current_odom_xy_theta[2]) <= d_thresh
          /\ AngleDiff(new_odom_xy_theta[3], current_odom_xy_theta[3]) <= a_thresh =>
              pc'["loop"] # "motion"]_vars

\* C10: the scan run_loop clears is the scan it read.  Whenever
\* scan_to_process goes from a scan to None, that scan is run_loop's msg; and
\* what run_loop publishes is the stamp of its msg, a scan it has read and
\* cleared.
C10_ClearedScanWasRead ==
    [][/\ scan_to_process # 0 /\ scan_to_process' = 0 => msg["loop"] = scan_to_process
       /\ pub_stamps' # pub_stamps =>
              /\ msg["loop"] # 0
              /\ pub_stamps' = pub_stamps \cup {msg["loop"]}
              /\ scan_to_process # msg["loop"]]_vars

\* both scans were stored, read, cleared and published
C10_Witness == pub_stamps = {1, 2} /\ scan_to_process = 0 /\ pc["loop"] = "idle"

\* C11: every particle of the cloud weighs at least 1, and no thread's
\* normalize_particles has divided by a zero total.
C11_NormalizeTotalPositive ==
    /\ \A i \in DOMAIN particle_cloud : particle_cloud[i].w >= 1
    /\ \A t \in Threads : pc[t] # "zero_division"

====
